---- MODULE Spec2Model ----
(***************************************************************************)
(* The two read_htk readers of the CSJ input pipeline:                     *)
(*   "gender" : src/csj/inputs/input_data.py      (statistics per gender)  *)
(*   "single" : src/src/csj/inputs/input_data.py  (one global cohort)      *)
(* A run is one call of read_htk; pc is the position inside the call.      *)
(*                                                                         *)
(* Numbers.  Feature values are small integers.  A mean is a vector of     *)
(* reduced fractions <<n, d>>.  A standard deviation is kept as the vector *)
(* of its squares (the variances, reduced fractions): std = sqrt(var).     *)
(* A written matrix entry is the real number s * sqrt(q), kept as          *)
(* [k |-> "fin", s |-> sign, q |-> fraction], or a non-finite value        *)
(* ("inf" with its sign, "nan") as numpy's division by zero yields.        *)
(* None and an unbound local are both the empty tuple <<>>.                *)
(***************************************************************************)
EXTENDS Integers, Sequences, FiniteSets, TLC

\* ------------------------------------------------------------- bounds ---
MaxSpeakers == 2
FeatDim == 2

Garbage == {0, 1}

None == <<>>

\* --------------------------------------------------------- arithmetic ---
Abs(x) == IF x < 0 THEN -x ELSE x

Sgn(x) == IF x < 0 THEN -1 ELSE IF x = 0 THEN 0 ELSE 1

RECURSIVE GCD(_, _)
GCD(a, b) == IF b = 0 THEN a ELSE GCD(b, a % b)

Rat(n, d) ==
    LET g == GCD(Abs(n), Abs(d))
        s == IF d < 0 THEN -1 ELSE 1
    IN  <<(s * n) \div g, (s * d) \div g>>

RatOfInt(x) == <<x, 1>>

RatAdd(a, b) == Rat(a[1] * b[2] + b[1] * a[2], a[2] * b[2])

RatSub(a, b) == Rat(a[1] * b[2] - b[1] * a[2], a[2] * b[2])

RatMul(a, b) == Rat(a[1] * b[1], a[2] * b[2])

RatDivInt(a, n) == Rat(a[1], a[2] * n)

RatSq(a) == RatMul(a, a)

Dims == 1..FeatDim

RECURSIVE SumSeq(_)
SumSeq(s) == IF s = <<>> THEN 0 ELSE Head(s) + SumSeq(Tail(s))

RECURSIVE Concat(_)
Concat(ss) == IF ss = <<>> THEN <<>> ELSE Head(ss) \o Concat(Tail(ss))

Range(s) == {s[i] : i \in DOMAIN s}

\* -------------------------------------------------------------- names ---
\* A speaker name is a tuple of characters; speaker_name[3] is name[4].
NameM1 == <<"A", "0", "1", "M", "1">>
NameM2 == <<"A", "0", "1", "M", "2">>
NameF1 == <<"A", "0", "1", "F", "1">>
NameX1 == <<"A", "0", "1", "X", "1">>
NameU1 == <<"A", "_", "1", "M", "3">>

Names == {NameM1, NameM2, NameF1, NameX1, NameU1}

HtkPath(name) == <<"/", "htk", "/">> \o name \o <<".", "htk">>

RECURSIVE Split(_, _)
Split(s, sep) ==
    IF \A i \in DOMAIN s : s[i] # sep
    THEN <<s>>
    ELSE LET p == CHOOSE i \in DOMAIN s :
                      s[i] = sep /\ \A j \in 1..(i - 1) : s[j] # sep
         IN  <<SubSeq(s, 1, p - 1)>> \o Split(SubSeq(s, p + 1, Len(s)), sep)

basename(path) ==
    LET parts == Split(path, "/") IN parts[Len(parts)]

SpeakerNameOf(htk_path) == Split(basename(htk_path), ".")[1]

Digits == <<"1", "2", "3", "4", "5", "6", "7", "8", "9">>

UttKey(speaker_name, i) == speaker_name \o <<"_", Digits[i]>>

\* ----------------------------------------------------------- the data ---
\* A frame with value a in the first dimension and b in the others.
Frame(a, b) == [d \in Dims |-> IF d = 1 THEN a ELSE b]

\* What a speaker's recording can be, as its list of utterance matrices: one
\* frame; two utterances of different lengths, constant beyond the first
\* dimension; two utterances that vary in every dimension.
DataA == << <<Frame(0, 0)>> >>
DataB == << <<Frame(1, 0)>>, <<Frame(0, 0), Frame(1, 0)>> >>
DataC == << <<Frame(0, 1), Frame(1, 0)>>, <<Frame(1, 1)>> >>

SpeakerData == {DataA, DataB, DataC}

VecSum(frames) == [d \in Dims |-> SumSeq([i \in DOMAIN frames |-> frames[i][d]])]

\* ------------------------------------------- segmentation (utils) ---
\* What segment_htk hands back for one speaker: the utterance matrices under
\* their keys (in order), the speaker's per-dimension sum and frame count.
segment_htk(speaker_name, utts) ==
    [dict   |-> [n \in DOMAIN utts |-> <<UttKey(speaker_name, n), utts[n]>>],
     sum    |-> VecSum(Concat(utts)),
     frames |-> Len(Concat(utts))]

AllFrames(dict_list) ==
    Concat([n \in DOMAIN dict_list |->
               Concat([u \in DOMAIN dict_list[n] |-> dict_list[n][u][2]])])

\* sqrt_sum: from zeros, the sum over the rows of (row - global_mean)^2.
sqrt_sum(frames, mean) ==
    [d \in Dims |->
        LET sq[n \in 0..Len(frames)] ==
                IF n = 0 THEN <<0, 1>>
                ELSE RatAdd(sq[n - 1],
                            RatSq(RatSub(RatOfInt(frames[n][d]), mean[d])))
        IN  sq[Len(frames)]]

\* utils.inputs.segmentation.global_mean: sum of the sums / sum of the counts;
\* None stands for its failure on a cohort without frames.
global_mean(mean_list, frame_num_list) ==
    LET total == SumSeq(frame_num_list)
    IN  IF total = 0 THEN None
        ELSE [d \in Dims |->
                 Rat(SumSeq([n \in DOMAIN mean_list |-> mean_list[n][d]]), total)]

\* utils.inputs.segmentation.global_std: the variance around the given mean
\* (std = sqrt of it), over every frame of the cohort's utterance matrices;
\* None stands for its failure on a cohort without frames.
global_std(dict_list, frame_num_list, mean) ==
    LET total == SumSeq(frame_num_list)
        sq    == sqrt_sum(AllFrames(dict_list), mean)
    IN  IF total = 0 THEN None
        ELSE [d \in Dims |-> RatDivInt(sq[d], total)]

\* ------------------------------------------------------ normalization ---
Embed(x) == [k |-> "fin", s |-> Sgn(x), q |-> <<x * x, 1>>]

AsIs(mat) == [r \in DOMAIN mat |-> [d \in Dims |-> Embed(mat[r][d])]]

\* input_data_utt -= mean
SubMean(mat, mean) ==
    [r \in DOMAIN mat |-> [d \in Dims |-> RatSub(RatOfInt(mat[r][d]), mean[d])]]

DivVal(x, v) ==
    IF v[1] = 0
    THEN IF x[1] = 0 THEN [k |-> "nan", s |-> 0, q |-> <<0, 1>>]
         ELSE [k |-> "inf", s |-> Sgn(x[1]), q |-> <<0, 1>>]
    ELSE [k |-> "fin", s |-> Sgn(x[1]), q |-> RatMul(RatSq(x), <<v[2], v[1]>>)]

\* input_data_utt /= std   (std given by its square var)
DivStd(rmat, var) ==
    [r \in DOMAIN rmat |-> [d \in Dims |-> DivVal(rmat[r][d], var[d])]]

Normalize(mat, mean, var) == DivStd(SubMean(mat, mean), var)

NonFinite(vmat) ==
    \E r \in DOMAIN vmat : \E d \in Dims : vmat[r][d].k # "fin"

\* The statistics a caller can pass in from an earlier training run.
ArgMean == [d \in Dims |-> <<1, 2>>]
ArgStd == [d \in Dims |-> <<1, 4>>]
ArgMeanFemale == [d \in Dims |-> <<3, 2>>]
ArgStdFemale == [d \in Dims |-> <<9, 4>>]

\* ---------------------------------------------------------- the state ---
VARIABLES
    variant,            \* which reader runs: "gender" or "single"
    htk_paths, corpus,  \* the paths, and each speaker's utterances
    normalize,          \* gender reader: "global" | "speaker" | "utterance"
    global_norm,        \* single reader: BOOLEAN
    is_training, save_path,
    train_mean_male, train_mean_female, train_std_male, train_std_female,
    train_mean, train_std,
    pc, i, err,
    male, female,       \* gender reader: the three lists of each gender
    all,                \* single reader: the lists over every speaker
    train_global_mean, train_global_std, total_frame_num,
    frame_num_dict,     \* the dictionary being built
    npy_files,          \* utterance key -> matrix written
    stat_files,         \* statistics file name -> vector written
    frame_num_pickle,   \* <<>> until dumped, then <<frame_num_dict>>
    returned,           \* <<>> until return, then the tuple returned
    sq_mean,            \* cohort -> the mean its squared deviations used
    sq_frames,          \* frames that contributed to train_global_std
    finalized           \* the statistics computed to the end in this run

vars ==
    <<variant, htk_paths, corpus, normalize, global_norm, is_training, save_path,
      train_mean_male, train_mean_female, train_std_male, train_std_female,
      train_mean, train_std, pc, i, err, male, female, all,
      train_global_mean, train_global_std, total_frame_num,
      frame_num_dict, npy_files, stat_files, frame_num_pickle, returned,
      sq_mean, sq_frames, finalized>>

inputs ==
    <<variant, htk_paths, corpus, normalize, global_norm, is_training, save_path,
      train_mean, train_std>>

EmptyLists == [dict_list |-> <<>>, mean_list |-> <<>>, frame_num_list |-> <<>>]

EmptyMap == [x \in {} |-> 0]

PathLists ==
    {p \in UNION {[1..n -> Names] : n \in 0..MaxSpeakers} :
        \A a, b \in DOMAIN p : a # b => p[a] # p[b]}

AfterStats == IF save_path THEN "write" ELSE "return"

\* Mutant: the statistics files are saved ahead of the training block.
AfterRead_SaveFirst ==
    IF is_training
    THEN IF save_path
         THEN IF variant = "gender" THEN "save_mean_male" ELSE "save_mean"
         ELSE IF variant = "gender" THEN "mean_male" ELSE "init_mean"
    ELSE AfterStats

AfterRead ==
    IF is_training
    THEN IF variant = "gender" THEN "mean_male" ELSE "init_mean"
    ELSE AfterStats

Init ==
    /\ variant \in {"gender", "single"}
    /\ \E p \in PathLists :
          /\ htk_paths = [n \in DOMAIN p |-> HtkPath(p[n])]
          /\ corpus \in [Range(p) -> SpeakerData]
    /\ is_training \in BOOLEAN
    /\ save_path \in BOOLEAN
    /\ IF variant = "gender"
       THEN /\ normalize \in {"global", "speaker", "utterance"}
            /\ global_norm = FALSE
            /\ \E m \in BOOLEAN : \E f \in BOOLEAN :
                  /\ train_mean_male = IF m THEN ArgMean ELSE None
                  /\ train_std_male = IF m THEN ArgStd ELSE None
                  /\ train_mean_female = IF f THEN ArgMeanFemale ELSE None
                  /\ train_std_female = IF f THEN ArgStdFemale ELSE None
            /\ train_mean = None /\ train_std = None
       ELSE /\ normalize = "global"
            /\ global_norm \in BOOLEAN
            /\ \E g \in BOOLEAN :
                  /\ train_mean = IF g THEN ArgMean ELSE None
                  /\ train_std = IF g THEN ArgStd ELSE None
            /\ train_mean_male = None /\ train_mean_female = None
            /\ train_std_male = None /\ train_std_female = None
    /\ pc = IF htk_paths = <<>> THEN AfterRead ELSE "read"
    /\ i = 1
    /\ err = ""
    /\ male = EmptyLists /\ female = EmptyLists /\ all = EmptyLists
    /\ train_global_mean = None /\ train_global_std = None
    /\ total_frame_num = 0
    /\ frame_num_dict = EmptyMap
    /\ npy_files = EmptyMap
    /\ stat_files = EmptyMap
    /\ frame_num_pickle = <<>>
    /\ returned = <<>>
    /\ sq_mean = [male |-> None, female |-> None, all |-> None]
    /\ sq_frames = 0
    /\ finalized = {}

Append3(lists, seg) ==
    [dict_list      |-> Append(lists.dict_list, seg.dict),
     mean_list      |-> Append(lists.mean_list, seg.sum),
     frame_num_list |-> Append(lists.frame_num_list, seg.frames)]

Raise(e) == pc' = "error" /\ err' = e

\* ------------------------------ read_htk, src/csj/inputs/input_data.py ---
\* Mutant: each speaker is appended to the other gender's lists.
CohortOf_Swapped(speaker_name) ==
    IF speaker_name[4] = "M" THEN "female"
    ELSE IF speaker_name[4] = "F" THEN "male"
    ELSE "none"

\* speaker_name[3] decides the lists a speaker joins ("none": dropped).
CohortOf(speaker_name) ==
    IF speaker_name[4] = "M" THEN "male"
    ELSE IF speaker_name[4] = "F" THEN "female"
    ELSE "none"

ReadSpeakerG ==
    /\ pc = "read" /\ variant = "gender" /\ i <= Len(htk_paths)
    /\ LET speaker_name == SpeakerNameOf(htk_paths[i])
           seg == segment_htk(speaker_name, corpus[speaker_name])
           c   == CohortOf(speaker_name)
       IN  /\ male' = IF c = "male" THEN Append3(male, seg) ELSE male
           /\ female' = IF c = "female" THEN Append3(female, seg) ELSE female
    /\ IF i = Len(htk_paths) THEN pc' = AfterRead /\ i' = 1
                             ELSE pc' = "read" /\ i' = i + 1
    /\ UNCHANGED <<inputs, train_mean_male, train_mean_female, train_std_male,
                   train_std_female, err, all, train_global_mean,
                   train_global_std, total_frame_num, frame_num_dict, npy_files,
                   stat_files, frame_num_pickle, returned, sq_mean, sq_frames,
                   finalized>>

\* Mutant: the female mean is not computed before the std pass starts.
AfterMeanMale_SkipFemaleMean == "std_male"

\* The statements of the training block, in their order.
AfterMeanMale == "mean_female"

AfterStdG == IF save_path THEN "save_mean_male" ELSE "return"

Others ==
    <<inputs, i, male, female, all, train_global_mean, train_global_std,
      total_frame_num, frame_num_dict, npy_files, stat_files, frame_num_pickle,
      returned, sq_frames>>

GlobalMeanMale ==
    /\ pc = "mean_male"
    /\ LET m == global_mean(male.mean_list, male.frame_num_list)
       IN  IF m = None
           THEN Raise("EmptyCohortError") /\ UNCHANGED <<train_mean_male, finalized>>
           ELSE /\ pc' = AfterMeanMale
                /\ train_mean_male' = m
                /\ finalized' = finalized \cup {"mean_male"}
                /\ UNCHANGED err
    /\ UNCHANGED <<Others, train_mean_female, train_std_male, train_std_female,
                   sq_mean>>

GlobalMeanFemale ==
    /\ pc = "mean_female"
    /\ LET m == global_mean(female.mean_list, female.frame_num_list)
       IN  IF m = None
           THEN Raise("EmptyCohortError")
                /\ UNCHANGED <<train_mean_female, finalized>>
           ELSE /\ pc' = "std_male"
                /\ train_mean_female' = m
                /\ finalized' = finalized \cup {"mean_female"}
                /\ UNCHANGED err
    /\ UNCHANGED <<Others, train_mean_male, train_std_male, train_std_female,
                   sq_mean>>

GlobalStdMale ==
    /\ pc = "std_male"
    /\ IF train_mean_male = None
       THEN Raise("TypeError") /\ UNCHANGED <<train_std_male, sq_mean, finalized>>
       ELSE IF global_std(male.dict_list, male.frame_num_list,
                          train_mean_male) = None
       THEN Raise("EmptyCohortError")
            /\ UNCHANGED <<train_std_male, sq_mean, finalized>>
       ELSE /\ train_std_male' = global_std(male.dict_list, male.frame_num_list,
                                            train_mean_male)
            /\ sq_mean' = [sq_mean EXCEPT !.male = train_mean_male]
            /\ finalized' = finalized \cup {"std_male"}
            /\ pc' = "std_female"
            /\ UNCHANGED err
    /\ UNCHANGED <<Others, train_mean_male, train_mean_female, train_std_female>>

GlobalStdFemale ==
    /\ pc = "std_female"
    /\ IF train_mean_female = None
       THEN Raise("TypeError")
            /\ UNCHANGED <<train_std_female, sq_mean, finalized>>
       ELSE IF global_std(female.dict_list, female.frame_num_list,
                          train_mean_female) = None
       THEN Raise("EmptyCohortError")
            /\ UNCHANGED <<train_std_female, sq_mean, finalized>>
       ELSE /\ train_std_female' = global_std(female.dict_list,
                                              female.frame_num_list,
                                              train_mean_female)
            /\ sq_mean' = [sq_mean EXCEPT !.female = train_mean_female]
            /\ finalized' = finalized \cup {"std_female"}
            /\ pc' = AfterStdG
            /\ UNCHANGED err
    /\ UNCHANGED <<Others, train_mean_male, train_mean_female, train_std_male>>

\* np.save of one statistics file, then on to the next statement.
SaveStat(at, file, value, next) ==
    /\ pc = at
    /\ stat_files' = (file :> value) @@ stat_files
    /\ pc' = next
    /\ UNCHANGED <<inputs, train_mean_male, train_mean_female, train_std_male,
                   train_std_female, i, err, male, female, all,
                   train_global_mean, train_global_std, total_frame_num,
                   frame_num_dict, npy_files, frame_num_pickle, returned,
                   sq_mean, sq_frames, finalized>>

SaveMeanMale ==
    SaveStat("save_mean_male", "train_mean_male.npy", train_mean_male,
             "save_mean_female")

SaveMeanFemale ==
    SaveStat("save_mean_female", "train_mean_female.npy", train_mean_female,
             "save_std_male")

SaveStdMale ==
    SaveStat("save_std_male", "train_std_male.npy", train_std_male,
             "save_std_female")

SaveStdFemale ==
    SaveStat("save_std_female", "train_std_female.npy", train_std_female,
             "write")

\* input_data_dict_list_male + input_data_dict_list_female, item by item.
ItemsG == Concat(male.dict_list \o female.dict_list)

\* Mutant: the write-out loop normalizes whatever the mode.
NormalizesG_Always == TRUE

\* The normalization branch of the write-out loop is taken in global mode.
NormalizesG == normalize = "global"

\* In that branch speaker_name[3] picks the statistics applied.
StatsCohort(speaker_name) ==
    IF speaker_name[4] = "M" THEN "male"
    ELSE IF speaker_name[4] = "F" THEN "female"
    ELSE "none"

\* np.save(input_data_save_path, ...); frame_num_dict[key] = ....shape[0]
SaveUtt(key, out) ==
    /\ npy_files' = (key :> out) @@ npy_files
    /\ frame_num_dict' = (key :> Len(out)) @@ frame_num_dict
    /\ i' = i + 1
    /\ UNCHANGED <<pc, err>>

\* One turn of the write-out loop.  The -= and /= act in place on the array
\* of the list; nothing reads that array again, so only what np.save receives
\* is kept.  numpy divides by a zero std without raising.
WriteUttG ==
    /\ pc = "write" /\ variant = "gender" /\ i <= Len(ItemsG)
    /\ LET key   == ItemsG[i][1]
           mat   == ItemsG[i][2]
           parts == Split(key, "_")
           c     == StatsCohort(parts[1])
           mean  == IF c = "male" THEN train_mean_male ELSE train_mean_female
           std   == IF c = "male" THEN train_std_male ELSE train_std_female
       IN  IF Len(parts) # 2
           THEN Raise("ValueError") /\ UNCHANGED <<npy_files, frame_num_dict, i>>
           ELSE IF Len(parts[1]) < 4
           THEN Raise("IndexError") /\ UNCHANGED <<npy_files, frame_num_dict, i>>
           ELSE IF NormalizesG /\ c # "none"
           THEN IF mean = None \/ std = None
                THEN Raise("TypeError")
                     /\ UNCHANGED <<npy_files, frame_num_dict, i>>
                ELSE SaveUtt(key, Normalize(mat, mean, std))
           ELSE SaveUtt(key, AsIs(mat))
    /\ UNCHANGED <<inputs, train_mean_male, train_mean_female, train_std_male,
                   train_std_female, male, female, all, train_global_mean,
                   train_global_std, total_frame_num, stat_files,
                   frame_num_pickle, returned, sq_mean, sq_frames,
                   finalized>>

\* pickle.dump(frame_num_dict, f)
Dump ==
    /\ frame_num_pickle' = <<frame_num_dict>>
    /\ pc' = "return"
    /\ UNCHANGED <<inputs, train_mean_male, train_mean_female, train_std_male,
                   train_std_female, i, err, male, female, all,
                   train_global_mean, train_global_std, total_frame_num,
                   frame_num_dict, npy_files, stat_files, returned, sq_mean,
                   sq_frames, finalized>>

DumpG ==
    /\ pc = "write" /\ variant = "gender" /\ i > Len(ItemsG)
    /\ Dump

Return(value) ==
    /\ pc = "return"
    /\ returned' = value
    /\ pc' = "done"
    /\ UNCHANGED <<inputs, train_mean_male, train_mean_female, train_std_male,
                   train_std_female, i, err, male, female, all,
                   train_global_mean, train_global_std, total_frame_num,
                   frame_num_dict, npy_files, stat_files, frame_num_pickle,
                   sq_mean, sq_frames, finalized>>

ReturnedG ==
    <<train_mean_male, train_mean_female, train_std_male, train_std_female>>

ReturnG ==
    /\ variant = "gender"
    /\ Return(ReturnedG)

NextG ==
    \/ ReadSpeakerG
    \/ GlobalMeanMale
    \/ GlobalMeanFemale
    \/ GlobalStdMale
    \/ GlobalStdFemale
    \/ SaveMeanMale
    \/ SaveMeanFemale
    \/ SaveStdMale
    \/ SaveStdFemale
    \/ WriteUttG
    \/ DumpG
    \/ ReturnG

\* -------------------------- read_htk, src/src/csj/inputs/input_data.py ---
ReadSpeakerS ==
    /\ pc = "read" /\ variant = "single" /\ i <= Len(htk_paths)
    /\ LET speaker_name == SpeakerNameOf(htk_paths[i])
       IN  all' = Append3(all, segment_htk(speaker_name, corpus[speaker_name]))
    /\ IF i = Len(htk_paths) THEN pc' = AfterRead /\ i' = 1
                             ELSE pc' = "read" /\ i' = i + 1
    /\ UNCHANGED <<inputs, train_mean_male, train_mean_female, train_std_male,
                   train_std_female, err, male, female, train_global_mean,
                   train_global_std, total_frame_num, frame_num_dict, npy_files,
                   stat_files, frame_num_pickle, returned, sq_mean, sq_frames,
                   finalized>>

\* np.empty((feature_dim,)): the buffer holds whatever the memory held.
np_empty == {[d \in Dims |-> RatOfInt(g)] : g \in Garbage}

RatVecAdd(acc, v) == [d \in Dims |-> RatAdd(acc[d], v[d])]

RatVecOfInts(v) == [d \in Dims |-> RatOfInt(v[d])]

InitMean ==
    /\ pc = "init_mean"
    /\ IF all.mean_list = <<>>
       THEN Raise("IndexError")
            /\ UNCHANGED <<train_global_mean, total_frame_num, i>>
       ELSE /\ train_global_mean' \in np_empty
            /\ total_frame_num' = SumSeq(all.frame_num_list)
            /\ i' = 1
            /\ pc' = "add_mean"
            /\ UNCHANGED err
    /\ UNCHANGED <<inputs, train_mean_male, train_mean_female, train_std_male,
                   train_std_female, male, female, all, train_global_std,
                   frame_num_dict, npy_files, stat_files, frame_num_pickle,
                   returned, sq_mean, sq_frames,
                   finalized>>

AddMean ==
    /\ pc = "add_mean" /\ i <= Len(all.dict_list)
    /\ train_global_mean' =
           RatVecAdd(train_global_mean, RatVecOfInts(all.mean_list[i]))
    /\ i' = i + 1
    /\ UNCHANGED <<inputs, train_mean_male, train_mean_female, train_std_male,
                   train_std_female, pc, err, male, female, all,
                   train_global_std, total_frame_num, frame_num_dict, npy_files,
                   stat_files, frame_num_pickle, returned, sq_mean, sq_frames,
                   finalized>>

FinalizeMean ==
    /\ pc = "add_mean" /\ i > Len(all.dict_list)
    /\ train_global_mean' =
           [d \in Dims |-> RatDivInt(train_global_mean[d], total_frame_num)]
    /\ finalized' = finalized \cup {"mean"}
    /\ pc' = "init_std"
    /\ UNCHANGED <<inputs, train_mean_male, train_mean_female, train_std_male,
                   train_std_female, i, err, male, female, all,
                   train_global_std, total_frame_num, frame_num_dict, npy_files,
                   stat_files, frame_num_pickle, returned, sq_mean, sq_frames>>

InitStd ==
    /\ pc = "init_std"
    /\ train_global_std' \in np_empty
    /\ i' = 1
    /\ pc' = "add_std"
    /\ UNCHANGED <<inputs, train_mean_male, train_mean_female, train_std_male,
                   train_std_female, err, male, female, all, train_global_mean,
                   total_frame_num, frame_num_dict, npy_files, stat_files,
                   frame_num_pickle, returned, sq_mean, sq_frames,
                   finalized>>

\* train_data_speaker: the speaker's utterance matrices, one after the other.
TrainDataSpeaker(input_data_dict) ==
    Concat([u \in DOMAIN input_data_dict |-> input_data_dict[u][2]])

AddStd ==
    /\ pc = "add_std" /\ i <= Len(all.dict_list)
    /\ LET train_data_speaker == TrainDataSpeaker(all.dict_list[i])
       IN  /\ train_global_std' =
                  RatVecAdd(train_global_std,
                            sqrt_sum(train_data_speaker, train_global_mean))
           /\ sq_frames' = sq_frames + Len(train_data_speaker)
    /\ sq_mean' = [sq_mean EXCEPT !.all = train_global_mean]
    /\ i' = i + 1
    /\ UNCHANGED <<inputs, train_mean_male, train_mean_female, train_std_male,
                   train_std_female, pc, err, male, female, all,
                   train_global_mean, total_frame_num, frame_num_dict,
                   npy_files, stat_files, frame_num_pickle, returned, finalized>>

AfterStdS == IF save_path THEN "save_mean" ELSE "return"

FinalizeStd ==
    /\ pc = "add_std" /\ i > Len(all.dict_list)
    /\ train_global_std' =
           [d \in Dims |-> RatDivInt(train_global_std[d], total_frame_num)]
    /\ finalized' = finalized \cup {"std"}
    /\ pc' = AfterStdS
    /\ i' = 1
    /\ UNCHANGED <<inputs, train_mean_male, train_mean_female, train_std_male,
                   train_std_female, err, male, female, all, train_global_mean,
                   total_frame_num, frame_num_dict, npy_files, stat_files,
                   frame_num_pickle, returned, sq_mean, sq_frames>>

SaveMeanS == SaveStat("save_mean", "train_mean.npy", train_global_mean, "save_std")

SaveStdS == SaveStat("save_std", "train_std.npy", train_global_std, "write")

ItemsS == Concat(all.dict_list)

\* One turn of the write-out loop.  train_global_mean and train_global_std
\* are bound only by the training block: unbound, their use raises NameError.
WriteUttS ==
    /\ pc = "write" /\ variant = "single" /\ i <= Len(ItemsS)
    /\ LET key   == ItemsS[i][1]
           mat   == ItemsS[i][2]
           parts == Split(key, "_")
       IN  IF global_norm /\ (train_global_mean = None \/ train_global_std = None)
           THEN Raise("NameError") /\ UNCHANGED <<npy_files, frame_num_dict, i>>
           ELSE IF Len(parts) # 2
           THEN Raise("ValueError") /\ UNCHANGED <<npy_files, frame_num_dict, i>>
           ELSE IF global_norm
           THEN SaveUtt(key, Normalize(mat, train_global_mean, train_global_std))
           ELSE SaveUtt(key, AsIs(mat))
    /\ UNCHANGED <<inputs, train_mean_male, train_mean_female, train_std_male,
                   train_std_female, male, female, all, train_global_mean,
                   train_global_std, total_frame_num, stat_files,
                   frame_num_pickle, returned, sq_mean, sq_frames,
                   finalized>>

DumpS ==
    /\ pc = "write" /\ variant = "single" /\ i > Len(ItemsS)
    /\ Dump

ReturnedS == <<train_mean, train_std>>

ReturnS ==
    /\ variant = "single"
    /\ Return(ReturnedS)

NextS ==
    \/ ReadSpeakerS
    \/ InitMean
    \/ AddMean
    \/ FinalizeMean
    \/ InitStd
    \/ AddStd
    \/ FinalizeStd
    \/ SaveMeanS
    \/ SaveStdS
    \/ WriteUttS
    \/ DumpS
    \/ ReturnS

Next == NextG \/ NextS

Spec == Init /\ [][Next]_vars

\* ================================================== the properties ====
\* Reference values, computed from the call's inputs alone.
PathNames == [n \in DOMAIN htk_paths |-> SpeakerNameOf(htk_paths[n])]

\* <<speaker name, utterance number>> of every utterance of the call.
Utterances ==
    UNION {{<<PathNames[n], u>> : u \in DOMAIN corpus[PathNames[n]]} :
              n \in DOMAIN PathNames}

KeyOf(nu) == UttKey(nu[1], nu[2])

OrigOf(nu) == corpus[nu[1]][nu[2]]

GenderOf(nm) == nm[4]

FramesOfGender(g) ==
    LET sel == SelectSeq(PathNames, LAMBDA nm : GenderOf(nm) = g)
    IN  Concat([n \in DOMAIN sel |-> Concat(corpus[sel[n]])])

FramesOfAll ==
    Concat([n \in DOMAIN PathNames |-> Concat(corpus[PathNames[n]])])

RefMean(frames) ==
    [d \in Dims |->
        Rat(SumSeq([n \in DOMAIN frames |-> frames[n][d]]), Len(frames))]

\* The population variance by the moments: (N * sum x^2 - (sum x)^2) / N^2.
RefVar(frames) ==
    [d \in Dims |->
        LET N  == Len(frames)
            s1 == SumSeq([n \in DOMAIN frames |-> frames[n][d]])
            s2 == SumSeq([n \in DOMAIN frames |-> frames[n][d] * frames[n][d]])
        IN  Rat(N * s2 - s1 * s1, N * N)]

\* Sum of (x - m)^2 expanded: sum x^2 - 2 m sum x + N m^2, over N frames.
RefVarAround(frames, mean) ==
    [d \in Dims |->
        LET N  == Len(frames)
            s1 == SumSeq([n \in DOMAIN frames |-> frames[n][d]])
            s2 == SumSeq([n \in DOMAIN frames |-> frames[n][d] * frames[n][d]])
            m  == mean[d]
            t  == RatAdd(RatSub(RatOfInt(s2), RatMul(RatOfInt(2 * s1), m)),
                         RatMul(RatOfInt(N), RatSq(m)))
        IN  RatDivInt(t, N)]

GlobalMode == IF variant = "gender" THEN normalize = "global" ELSE global_norm

Ended == pc \in {"done", "error"}

HasZero(v) == \E d \in DOMAIN v : v[d][1] = 0

\* The statistics the write-out pass holds for a speaker.
MeanHeld(nm) ==
    IF variant = "single" THEN train_global_mean
    ELSE IF GenderOf(nm) = "M" THEN train_mean_male ELSE train_mean_female

StdHeld(nm) ==
    IF variant = "single" THEN train_global_std
    ELSE IF GenderOf(nm) = "M" THEN train_std_male ELSE train_std_female

StdNameOf(nm) ==
    IF variant = "single" THEN "std"
    ELSE IF GenderOf(nm) = "M" THEN "std_male" ELSE "std_female"

\* The statistics the caller supplied for a speaker's cohort are missing.
Missing(nm) ==
    IF variant = "single" THEN train_mean = None \/ train_std = None
    ELSE \/ GenderOf(nm) = "M" /\ (train_mean_male = None \/ train_std_male = None)
         \/ GenderOf(nm) = "F"
            /\ (train_mean_female = None \/ train_std_female = None)

\* C1: a non-training run in global mode with a save_path, where the
\* statistics of the cohort of some speaker of htk_paths were not supplied,
\* never completes and writes no utterance matrix and no frame-count index.
C1_MissingStatisticsWriteNothing ==
    (/\ ~is_training /\ GlobalMode /\ save_path
     /\ \E n \in DOMAIN PathNames : Missing(PathNames[n]))
    => /\ pc # "done"
       /\ npy_files = EmptyMap
       /\ frame_num_pickle = <<>>

\* C2: once read_htk has completed with a save_path, every utterance of every
\* speaker of htk_paths has its matrix written under its key, and the dumped
\* index holds that key with the row count of the written matrix.
C2_IndexCoversEveryUtterance ==
    (pc = "done" /\ save_path)
    => \A nu \in Utterances :
          /\ KeyOf(nu) \in DOMAIN npy_files
          /\ KeyOf(nu) \in DOMAIN frame_num_pickle[1]
          /\ frame_num_pickle[1][KeyOf(nu)] = Len(npy_files[KeyOf(nu)])

\* The statistics of a gender as its own speakers' data (training) or the
\* caller's arguments for that gender (otherwise) determine them.
OwnMean(g) ==
    IF is_training THEN RefMean(FramesOfGender(g))
    ELSE IF g = "M" THEN ArgMean ELSE ArgMeanFemale

OwnStd(g) ==
    IF is_training THEN RefVar(FramesOfGender(g))
    ELSE IF g = "M" THEN ArgStd ELSE ArgStdFemale

C4_ReturnsComputedStatistics ==
    (pc = "done" /\ is_training)
    => returned = IF variant = "gender"
                  THEN <<RefMean(FramesOfGender("M")), RefMean(FramesOfGender("F")),
                         RefVar(FramesOfGender("M")), RefVar(FramesOfGender("F"))>>
                  ELSE <<train_global_mean, train_global_std>>

StatNames ==
    IF variant = "gender"
    THEN {"mean_male", "mean_female", "std_male", "std_female"}
    ELSE {"mean", "std"}

StatFileNames ==
    IF variant = "gender"
    THEN {"train_mean_male.npy", "train_mean_female.npy",
          "train_std_male.npy", "train_std_female.npy"}
    ELSE {"train_mean.npy", "train_std.npy"}

C6_ZeroStdWritesNothing ==
    \A nu \in Utterances :
        (GlobalMode /\ HasZero(StdHeld(nu[1])))
        => /\ KeyOf(nu) \notin DOMAIN npy_files
           /\ KeyOf(nu) \notin DOMAIN frame_num_dict

MeanNameOf(c) == IF c = "all" THEN "mean" ELSE IF c = "male" THEN "mean_male"
                 ELSE "mean_female"

MeanOfCohort(c) == IF c = "all" THEN train_global_mean
                   ELSE IF c = "male" THEN train_mean_male ELSE train_mean_female

\* C7: squared deviations of a cohort are accumulated only once its mean is
\* finalized and around that mean; in a training run an utterance is
\* normalized only once its cohort's std is finalized.
C7_MeanBeforeVarianceBeforeNormalize ==
    /\ \A c \in {"male", "female", "all"} :
          sq_mean[c] # None
          => MeanNameOf(c) \in finalized /\ sq_mean[c] = MeanOfCohort(c)
    /\ (is_training /\ GlobalMode)
       => \A nu \in Utterances :
             KeyOf(nu) \in DOMAIN npy_files => StdNameOf(nu[1]) \in finalized

C7_Witness ==
    /\ is_training /\ GlobalMode /\ pc = "done"
    /\ sq_mean.male # None /\ sq_mean.female # None
    /\ npy_files # EmptyMap

\* C8: the mean finalized by the mean pass is the sum of the speakers' sums
\* over the sum of their frame counts.
C8_MeanIsSumOverCount ==
    /\ "mean" \in finalized => train_global_mean = RefMean(FramesOfAll)
    /\ "mean_male" \in finalized
       => train_mean_male = RefMean(FramesOfGender("M"))
    /\ "mean_female" \in finalized
       => train_mean_female = RefMean(FramesOfGender("F"))

\* C9: the finalized sum of squared deviations holds the squared deviation
\* from the finalized mean of every frame once and nothing else, divided by
\* the number of frames that contributed.
C9_VarianceIsSquaredDeviations ==
    "std" \in finalized
    => /\ sq_frames = total_frame_num
       /\ train_global_std = RefVarAround(FramesOfAll, train_global_mean)

\* C10: a written matrix is, in global mode, the utterance with the held mean
\* subtracted and divided by the held std, once; in the other modes it is the
\* utterance as segmentation returned it.
C10_WriteOutNormalizesOnceInGlobalMode ==
    \A nu \in Utterances :
        KeyOf(nu) \in DOMAIN npy_files
        => npy_files[KeyOf(nu)] =
               IF GlobalMode
               THEN Normalize(OrigOf(nu), MeanHeld(nu[1]), StdHeld(nu[1]))
               ELSE AsIs(OrigOf(nu))

C10_Witness ==
    /\ pc = "done" /\ GlobalMode /\ is_training
    /\ Cardinality(DOMAIN npy_files) >= 2
    /\ \E nu \in Utterances :
          /\ KeyOf(nu) \in DOMAIN npy_files
          /\ ~NonFinite(npy_files[KeyOf(nu)])
          /\ npy_files[KeyOf(nu)] # AsIs(OrigOf(nu))

====
